---- MODULE Spec2Model ----
(***************************************************************************)
(* Model of the pdf_form field model (src/src/lib.rs): discovery of the    *)
(* form fields of a parsed PDF object graph (Form::load_doc), type         *)
(* classification (Form::get_type), state projection (Form::get_state,     *)
(* Form::get_possibilities) and the five validated setters.                *)
(*                                                                         *)
(* A PDF object is a record [t, v]: t is the lopdf::Object variant and v   *)
(* its payload.  A dictionary keeps its entries in insertion order, as a   *)
(* sequence of <<key, value>> pairs.                                       *)
(***************************************************************************)
EXTENDS Integers, Sequences, FiniteSets, TLC

VARIABLES trailer, objects, pc, queue, form_ids, load_result, steps,
          last_op, prev_objects, nops, type_in, type_out, state_out

vars == <<trailer, objects, pc, queue, form_ids, load_result, steps,
          last_op, prev_objects, nops, type_in, type_out, state_out>>

(***************************************************************************)
(* Bounds of the model.                                                    *)
(***************************************************************************)
MaxTopLevel == 3    \* entries of "Fields" in the documents of discovery alone
MaxSteps == 20      \* iterations of the discovery loop that are counted
MaxOps == 2         \* setter calls in one run
MaxChoices == 2     \* labels in one set_list_box call

(***************************************************************************)
(* lopdf::Object values.                                                   *)
(***************************************************************************)
Null == [t |-> "Null", v |-> 0]
Integer(n) == [t |-> "Integer", v |-> n]
Name(s) == [t |-> "Name", v |-> s]
Str(s) == [t |-> "String", v |-> s]
HexStr(s) == [t |-> "HexString", v |-> s]
Ref(i) == [t |-> "Reference", v |-> i]
Arr(a) == [t |-> "Array", v |-> a]
Dict(d) == [t |-> "Dictionary", v |-> d]

(***************************************************************************)
(* Dictionary access: get, set (a re-inserted key moves to the back of the *)
(* insertion order) and remove, on sequences of <<key, value>> pairs.      *)
(***************************************************************************)
Has(d, k) == \E i \in 1..Len(d) : d[i][1] = k
Get(d, k) == d[CHOOSE i \in 1..Len(d) : d[i][1] = k][2]
Remove(d, k) == SelectSeq(d, LAMBDA e : e[1] # k)
Set(d, k, val) == Append(Remove(d, k), <<k, val>>)

IsDict(o) == o.t = "Dictionary"
IsArray(o) == o.t = "Array"
IsRef(o) == o.t = "Reference"
IsName(o) == o.t = "Name"
IsLiteral(o) == o.t = "String"
IsInt(o) == o.t = "Integer"

\* A byte string that is not valid UTF-8 is written as this marker.
BadUtf8 == "\\xff"
Utf8Ok(s) == s # BadUtf8

(***************************************************************************)
(* Flag bits (bitflags! ButtonFlags, ChoiceFlags).                         *)
(***************************************************************************)
NO_TOGGLE_TO_OFF == 32768
RADIO == 65536
PUSHBUTTON == 131072
RADIO_IN_UNISON == 67108864
COBMO == 131072
EDIT == 262144
SORT == 524288
MULTISELECT == 2097152
DO_NOT_SPELLCHECK == 8388608
COMMIT_ON_CHANGE == 134217728

ButtonFlags == {NO_TOGGLE_TO_OFF, RADIO, PUSHBUTTON, RADIO_IN_UNISON}
ChoiceFlags == {COBMO, EDIT, SORT, MULTISELECT, DO_NOT_SPELLCHECK,
                COMMIT_ON_CHANGE}

\* Bit b (a power of two below 2^32) of the i64 x cast to u32: the cast keeps
\* the low 32 bits of the two's complement, so the bit is that of x itself.
BitOfU32(x, b) == (x \div b) % 2 = 1
\* from_bits_truncate: the known flags set in x, unknown bits dropped.
from_bits_truncate(all, x) == {b \in all : BitOfU32(x, b)}
intersects(flags, mask) == flags \cap mask # {}

\* field.get(b"Ff").unwrap_or(&Integer(0)).as_i64().unwrap(): FfOk tells
\* whether the unwrap succeeds, FfOf is the integer it yields.
FfOk(field) == ~Has(field, "Ff") \/ IsInt(Get(field, "Ff"))
FfOf(field) == IF Has(field, "Ff") THEN Get(field, "Ff").v ELSE 0

get_type_pushbutton_first(field) ==
  IF ~Has(field, "FT") \/ ~IsName(Get(field, "FT")) THEN "Panic"
  ELSE IF ~Utf8Ok(Get(field, "FT").v) THEN "Panic"
  ELSE IF Get(field, "FT").v = "Btn" THEN
    IF ~FfOk(field) THEN "Panic"
    ELSE IF intersects(from_bits_truncate(ButtonFlags, FfOf(field)),
                       {PUSHBUTTON}) THEN "Button"
    ELSE IF intersects(from_bits_truncate(ButtonFlags, FfOf(field)),
                       {RADIO, NO_TOGGLE_TO_OFF}) THEN "Radio"
    ELSE "CheckBox"
  ELSE IF Get(field, "FT").v = "Ch" THEN
    IF ~FfOk(field) THEN "Panic"
    ELSE IF intersects(from_bits_truncate(ChoiceFlags, FfOf(field)), {COBMO})
      THEN "ComboBox"
    ELSE "ListBox"
  ELSE "Text"

\* Form::get_type on the dictionary of the field: the FieldType, or "Panic"
\* when one of its unwraps fails.
get_type(field) ==
  IF ~Has(field, "FT") \/ ~IsName(Get(field, "FT")) THEN "Panic"
  ELSE IF ~Utf8Ok(Get(field, "FT").v) THEN "Panic"
  ELSE IF Get(field, "FT").v = "Btn" THEN
    IF ~FfOk(field) THEN "Panic"
    ELSE IF intersects(from_bits_truncate(ButtonFlags, FfOf(field)),
                       {RADIO, NO_TOGGLE_TO_OFF}) THEN "Radio"
    ELSE IF intersects(from_bits_truncate(ButtonFlags, FfOf(field)),
                       {PUSHBUTTON}) THEN "Button"
    ELSE "CheckBox"
  ELSE IF Get(field, "FT").v = "Ch" THEN
    IF ~FfOk(field) THEN "Panic"
    ELSE IF intersects(from_bits_truncate(ChoiceFlags, FfOf(field)), {COBMO})
      THEN "ComboBox"
    ELSE "ListBox"
  ELSE "Text"

(***************************************************************************)
(* State projection.                                                       *)
(***************************************************************************)
MapSeq(f(_), s) == [i \in 1..Len(s) |-> f(s[i])]
Contains(s, x) == \E i \in 1..Len(s) : s[i] = x

\* self.doc.objects.get(&oid).unwrap().as_dict().unwrap(), on a field that
\* discovery listed
FieldOf(objs, oid) == objs[oid].v

DecimalDigits == <<"0", "1", "2", "3", "4", "5", "6", "7", "8", "9">>
RECURSIVE to_string(_)
\* usize::to_string: the decimal digits of i.
to_string(i) ==
  IF i < 10 THEN DecimalDigits[i + 1]
  ELSE to_string(i \div 10) \o DecimalDigits[(i % 10) + 1]

\* kid.deref(&self.doc).unwrap().as_dict().unwrap() succeeds
KidOk(objs, kid) ==
  IsRef(kid) /\ kid.v \in DOMAIN objs /\ IsDict(objs[kid.v])

\* The keys of the kid's "AP" -> "N" dictionary, in insertion order; empty
\* when either level is absent or not an inline dictionary.
NormalAppearanceKeys(kidDict) ==
  IF Has(kidDict, "AP") /\ IsDict(Get(kidDict, "AP"))
     /\ Has(Get(kidDict, "AP").v, "N")
     /\ IsDict(Get(Get(kidDict, "AP").v, "N"))
  THEN MapSeq(LAMBDA e : e[1], Get(Get(kidDict, "AP").v, "N").v)
  ELSE <<>>

\* One iteration of the loop of get_possibilities: the first key that is not
\* "Off", else the 0-based position of the kid as a string.
KidLabel(objs, kid, i) ==
  LET keys == SelectSeq(NormalAppearanceKeys(objs[kid.v].v),
                        LAMBDA key : key # "Off")
  IN IF Len(keys) > 0 THEN keys[1] ELSE to_string(i)

PossibilitiesOk(objs, oid) ==
  LET field == FieldOf(objs, oid) IN
  (Has(field, "Kids") /\ IsArray(Get(field, "Kids")))
    => \A i \in 1..Len(Get(field, "Kids").v) :
         KidOk(objs, Get(field, "Kids").v[i])

\* Form::get_possibilities
get_possibilities(objs, oid) ==
  LET field == FieldOf(objs, oid) IN
  IF Has(field, "Kids") /\ IsArray(Get(field, "Kids"))
  THEN [i \in 1..Len(Get(field, "Kids").v) |->
          KidLabel(objs, Get(field, "Kids").v[i], i - 1)]
  ELSE <<>>

\* "V" then "AS" as a name (Radio and CheckBox arms): NameValueOk tells
\* whether as_name_str().unwrap() succeeds, NameValue is the string.
NameValueOk(field) ==
  IF Has(field, "V")
  THEN IsName(Get(field, "V")) /\ Utf8Ok(Get(field, "V").v)
  ELSE IF Has(field, "AS")
  THEN IsName(Get(field, "AS")) /\ Utf8Ok(Get(field, "AS").v)
  ELSE TRUE
NameValue(field) ==
  IF Has(field, "V") THEN Get(field, "V").v
  ELSE IF Has(field, "AS") THEN Get(field, "AS").v
  ELSE ""

\* The selected labels of a ListBox or ComboBox, from "V".
SelectedOk(field) ==
  IF ~Has(field, "V") THEN TRUE
  ELSE IF IsLiteral(Get(field, "V")) THEN Utf8Ok(Get(field, "V").v)
  ELSE IF IsArray(Get(field, "V"))
  THEN \A i \in 1..Len(Get(field, "V").v) :
         IsLiteral(Get(field, "V").v[i]) => Utf8Ok(Get(field, "V").v[i].v)
  ELSE TRUE
Selected(field) ==
  IF ~Has(field, "V") THEN <<>>
  ELSE IF IsLiteral(Get(field, "V")) THEN <<Get(field, "V").v>>
  ELSE IF IsArray(Get(field, "V"))
  THEN MapSeq(LAMBDA o : o.v, SelectSeq(Get(field, "V").v, IsLiteral))
  ELSE <<>>

\* The closure mapped over "Opt": a literal string is itself, an array is its
\* element at index 1 when that is a literal string, anything else is "".
OptionOk(x) ==
  IF IsLiteral(x) THEN Utf8Ok(x.v)
  ELSE IF IsArray(x)
  THEN Len(x.v) >= 2 /\ (IsLiteral(x.v[2]) => Utf8Ok(x.v[2].v))
  ELSE TRUE
OptionLabel(x) ==
  IF IsLiteral(x) THEN x.v
  ELSE IF IsArray(x) THEN (IF IsLiteral(x.v[2]) THEN x.v[2].v ELSE "")
  ELSE ""
OptionsOk(field) ==
  (Has(field, "Opt") /\ IsArray(Get(field, "Opt")))
    => \A i \in 1..Len(Get(field, "Opt").v) : OptionOk(Get(field, "Opt").v[i])
Options(field) ==
  IF Has(field, "Opt") /\ IsArray(Get(field, "Opt"))
  THEN SelectSeq(MapSeq(OptionLabel, Get(field, "Opt").v),
                 LAMBDA label : label # "")
  ELSE <<>>

Panic == [k |-> "Panic"]

\* Form::get_state: the FieldState of the field object oid, or Panic when an
\* unwrap or an index fails.
get_state(objs, oid) ==
  LET field == FieldOf(objs, oid)
      ty == get_type(field)
  IN CASE ty = "Panic" -> Panic
       [] ty = "Button" -> [k |-> "Button"]
       [] ty = "Radio" ->
            IF NameValueOk(field) /\ PossibilitiesOk(objs, oid)
            THEN [k |-> "Radio", selected |-> NameValue(field),
                  options |-> get_possibilities(objs, oid)]
            ELSE Panic
       [] ty = "CheckBox" ->
            IF NameValueOk(field)
            THEN [k |-> "CheckBox",
                  is_checked |-> (Has(field, "V") \/ Has(field, "AS"))
                                 /\ NameValue(field) = "Yes"]
            ELSE Panic
       [] ty = "ListBox" ->
            IF SelectedOk(field) /\ OptionsOk(field)
            THEN [k |-> "ListBox", selected |-> Selected(field),
                  options |-> Options(field),
                  multiselect |->
                    intersects(from_bits_truncate(ChoiceFlags, FfOf(field)),
                               {MULTISELECT})]
            ELSE Panic
       [] ty = "ComboBox" ->
            IF SelectedOk(field) /\ OptionsOk(field)
            THEN [k |-> "ComboBox", selected |-> Selected(field),
                  options |-> Options(field),
                  editable |->
                    intersects(from_bits_truncate(ChoiceFlags, FfOf(field)),
                               {EDIT})]
            ELSE Panic
       [] ty = "Text" ->
            IF Has(field, "V") /\ IsLiteral(Get(field, "V"))
            THEN (IF Utf8Ok(Get(field, "V").v)
                  THEN [k |-> "Text", text |-> Get(field, "V").v]
                  ELSE Panic)
            ELSE [k |-> "Text", text |-> ""]

(***************************************************************************)
(* State mutation.  Each setter yields its result ("Ok", a ValueError or   *)
(* "Panic") and the objects of the document after the call.                *)
(***************************************************************************)
Outcome(r, objs) == [res |-> r, objs |-> objs]
\* get_mut(&oid).unwrap().as_dict_mut().unwrap() followed by the writes
WithField(objs, oid, field) == [objs EXCEPT ![oid] = Dict(field)]

set_text_keeps_AP(objs, oid, s) ==
  LET ty == get_type(FieldOf(objs, oid)) IN
  IF ty = "Panic" THEN Outcome("Panic", objs)
  ELSE IF ty = "Text"
  THEN Outcome("Ok", WithField(objs, oid, Set(FieldOf(objs, oid), "V", Str(s))))
  ELSE Outcome("TypeMismatch", objs)

\* Form::set_text
set_text(objs, oid, s) ==
  LET ty == get_type(FieldOf(objs, oid)) IN
  IF ty = "Panic" THEN Outcome("Panic", objs)
  ELSE IF ty = "Text"
  THEN Outcome("Ok", WithField(objs, oid,
                        Remove(Set(FieldOf(objs, oid), "V", Str(s)), "AP")))
  ELSE Outcome("TypeMismatch", objs)

CheckName(is_checked) == Name(IF is_checked THEN "Yes" ELSE "Off")

set_check_box_V_only(objs, oid, is_checked) ==
  LET ty == get_type(FieldOf(objs, oid)) IN
  IF ty = "Panic" THEN Outcome("Panic", objs)
  ELSE IF ty = "CheckBox"
  THEN Outcome("Ok", WithField(objs, oid,
                        Set(FieldOf(objs, oid), "V", CheckName(is_checked))))
  ELSE Outcome("TypeMismatch", objs)

set_check_box_in_unison(objs, oid, is_checked) ==
  LET ty == get_type(FieldOf(objs, oid)) IN
  IF ty = "Panic" THEN Outcome("Panic", objs)
  ELSE IF ty = "CheckBox"
  THEN Outcome("Ok",
         [o \in DOMAIN objs |->
            IF IsDict(objs[o]) /\ get_type(objs[o].v) = "CheckBox"
            THEN Dict(Set(Set(objs[o].v, "V", CheckName(is_checked)),
                          "AS", CheckName(is_checked)))
            ELSE objs[o]])
  ELSE Outcome("TypeMismatch", objs)

\* Form::set_check_box
set_check_box(objs, oid, is_checked) ==
  LET ty == get_type(FieldOf(objs, oid)) IN
  IF ty = "Panic" THEN Outcome("Panic", objs)
  ELSE IF ty = "CheckBox"
  THEN Outcome("Ok", WithField(objs, oid,
                        Set(Set(FieldOf(objs, oid), "V", CheckName(is_checked)),
                            "AS", CheckName(is_checked))))
  ELSE Outcome("TypeMismatch", objs)

set_radio_unchecked(objs, oid, choice) ==
  LET st == get_state(objs, oid) IN
  IF st.k = "Panic" THEN Outcome("Panic", objs)
  ELSE IF st.k = "Radio"
  THEN Outcome("Ok", WithField(objs, oid,
                        Set(FieldOf(objs, oid), "V", Name(choice))))
  ELSE Outcome("TypeMismatch", objs)

set_radio_write_first(objs, oid, choice) ==
  LET st == get_state(objs, oid)
      written == WithField(objs, oid, Set(FieldOf(objs, oid), "V", Name(choice)))
  IN
  IF st.k = "Panic" THEN Outcome("Panic", objs)
  ELSE IF st.k = "Radio"
  THEN (IF Contains(st.options, choice)
        THEN Outcome("Ok", written)
        ELSE Outcome("InvalidSelection", written))
  ELSE Outcome("TypeMismatch", objs)

\* Form::set_radio
set_radio(objs, oid, choice) ==
  LET st == get_state(objs, oid) IN
  IF st.k = "Panic" THEN Outcome("Panic", objs)
  ELSE IF st.k = "Radio"
  THEN (IF Contains(st.options, choice)
        THEN Outcome("Ok", WithField(objs, oid,
                              Set(FieldOf(objs, oid), "V", Name(choice))))
        ELSE Outcome("InvalidSelection", objs))
  ELSE Outcome("TypeMismatch", objs)

\* choices.iter().fold(true, |a, h| options.contains(h) && a)
AllContained(options, choices) ==
  \A i \in 1..Len(choices) : Contains(options, choices[i])

\* The "V" written by set_list_box, by the number of choices.
ListBoxValue(choices) ==
  IF Len(choices) = 0 THEN Null
  ELSE IF Len(choices) = 1 THEN Str(choices[1])
  ELSE Arr(MapSeq(Str, choices))

set_list_box_count_first(objs, oid, choices) ==
  LET st == get_state(objs, oid) IN
  IF st.k = "Panic" THEN Outcome("Panic", objs)
  ELSE IF st.k = "ListBox"
  THEN (IF ~st.multiselect /\ Len(choices) > 1
        THEN Outcome("TooManySelected", objs)
        ELSE IF AllContained(st.options, choices)
        THEN Outcome("Ok", WithField(objs, oid,
                       Set(FieldOf(objs, oid), "V", ListBoxValue(choices))))
        ELSE Outcome("InvalidSelection", objs))
  ELSE Outcome("TypeMismatch", objs)

set_list_box_always_array(objs, oid, choices) ==
  LET st == get_state(objs, oid) IN
  IF st.k = "Panic" THEN Outcome("Panic", objs)
  ELSE IF st.k = "ListBox"
  THEN (IF AllContained(st.options, choices)
        THEN (IF ~st.multiselect /\ Len(choices) > 1
              THEN Outcome("TooManySelected", objs)
              ELSE Outcome("Ok", WithField(objs, oid,
                     Set(FieldOf(objs, oid), "V", Arr(MapSeq(Str, choices))))))
        ELSE Outcome("InvalidSelection", objs))
  ELSE Outcome("TypeMismatch", objs)

\* Form::set_list_box
set_list_box(objs, oid, choices) ==
  LET st == get_state(objs, oid) IN
  IF st.k = "Panic" THEN Outcome("Panic", objs)
  ELSE IF st.k = "ListBox"
  THEN (IF AllContained(st.options, choices)
        THEN (IF ~st.multiselect /\ Len(choices) > 1
              THEN Outcome("TooManySelected", objs)
              ELSE Outcome("Ok", WithField(objs, oid,
                     Set(FieldOf(objs, oid), "V", ListBoxValue(choices)))))
        ELSE Outcome("InvalidSelection", objs))
  ELSE Outcome("TypeMismatch", objs)

set_combo_box_and_editable(objs, oid, choice) ==
  LET st == get_state(objs, oid) IN
  IF st.k = "Panic" THEN Outcome("Panic", objs)
  ELSE IF st.k = "ComboBox"
  THEN (IF Contains(st.options, choice) /\ st.editable
        THEN Outcome("Ok", WithField(objs, oid,
                              Set(FieldOf(objs, oid), "V", Str(choice))))
        ELSE Outcome("InvalidSelection", objs))
  ELSE Outcome("TypeMismatch", objs)

\* Form::set_combo_box
set_combo_box(objs, oid, choice) ==
  LET st == get_state(objs, oid) IN
  IF st.k = "Panic" THEN Outcome("Panic", objs)
  ELSE IF st.k = "ComboBox"
  THEN (IF Contains(st.options, choice) \/ st.editable
        THEN Outcome("Ok", WithField(objs, oid,
                              Set(FieldOf(objs, oid), "V", Str(choice))))
        ELSE Outcome("InvalidSelection", objs))
  ELSE Outcome("TypeMismatch", objs)

(***************************************************************************)
(* Documents.  The objects of every document are those of Pool; documents  *)
(* differ in the trailer, the catalog (object 1), the form dictionary      *)
(* (object 2) and the "Fields" array.                                      *)
(***************************************************************************)
Widget == Dict(<<<<"Subtype", Name("Widget")>>>>)
Appearance(keys) ==
  Dict(<<<<"N", Dict(MapSeq(LAMBDA key : <<key, Null>>, keys))>>>>)

Pool ==
     (3 :> Integer(7))
  @@ (4 :> Arr(<<Ref(10)>>))
  \* text fields
  @@ (10 :> Dict(<<<<"FT", Name("Tx")>>, <<"AP", Appearance(<<"x">>)>>,
                   <<"T", Str("Name")>>, <<"Kids", Ref(4)>>>>))
  @@ (11 :> Dict(<<<<"FT", Name("Tx")>>, <<"V", HexStr("B")>>>>))
  \* check boxes
  @@ (12 :> Dict(<<<<"FT", Name("Btn")>>, <<"AS", Name("Yes")>>>>))
  @@ (13 :> Dict(<<<<"FT", Name("Btn")>>, <<"Ff", Integer(0)>>,
                   <<"V", Name("Off")>>, <<"AS", Name("Yes")>>>>))
  \* radio groups and their widgets
  @@ (14 :> Dict(<<<<"FT", Name("Btn")>>, <<"Ff", Integer(NO_TOGGLE_TO_OFF)>>,
                   <<"Kids", Arr(<<Ref(20), Ref(21), Ref(22)>>)>>>>))
  @@ (15 :> Dict(<<<<"FT", Name("Btn")>>,
                   <<"Ff", Integer(RADIO + PUSHBUTTON)>>,
                   <<"V", Name("B")>>, <<"Kids", Arr(<<Ref(20)>>)>>>>))
  @@ (20 :> Dict(<<<<"Subtype", Name("Widget")>>,
                   <<"AP", Appearance(<<"Off", "A", "B">>)>>>>))
  @@ (21 :> Dict(<<<<"Subtype", Name("Widget")>>,
                   <<"AP", Appearance(<<"Off">>)>>>>))
  @@ (22 :> Widget)
  \* list boxes
  @@ (16 :> Dict(<<<<"FT", Name("Ch")>>, <<"V", Str("A")>>,
                   <<"Opt", Arr(<<Str("A"), Str("B")>>)>>>>))
  @@ (17 :> Dict(<<<<"FT", Name("Ch")>>, <<"Ff", Integer(MULTISELECT)>>,
                   <<"V", Arr(<<Str("B"), Integer(1)>>)>>,
                   <<"Opt", Arr(<<Arr(<<Str("x"), Str("A")>>),
                                  Arr(<<Str("y"), Str("B")>>),
                                  Integer(5), Str("")>>)>>>>))
  \* combo boxes
  @@ (18 :> Dict(<<<<"FT", Name("Ch")>>, <<"Ff", Integer(COBMO)>>,
                   <<"Opt", Arr(<<Str("A"), Str("B")>>)>>>>))
  @@ (19 :> Dict(<<<<"FT", Name("Ch")>>, <<"Ff", Integer(COBMO + EDIT)>>,
                   <<"V", Str("Z")>>, <<"Opt", Arr(<<Str("A")>>)>>>>))
  \* push button
  @@ (23 :> Dict(<<<<"FT", Name("Btn")>>, <<"Ff", Integer(PUSHBUTTON)>>>>))
  \* grouping nodes without "FT"
  @@ (24 :> Dict(<<<<"T", Str("group")>>,
                   <<"Kids", Arr(<<Ref(11), Ref(25)>>)>>>>))
  @@ (25 :> Dict(<<<<"Kids", Arr(<<Ref(12), Ref(13)>>)>>>>))
  \* a grouping node that lists itself among its kids
  @@ (26 :> Dict(<<<<"Kids", Arr(<<Ref(26)>>)>>>>))
  \* a field whose "FT" is not a name
  @@ (27 :> Dict(<<<<"FT", Str("Tx")>>>>))
  \* a radio group whose kid is itself a text field with an appearance
  @@ (28 :> Dict(<<<<"FT", Name("Btn")>>, <<"Ff", Integer(RADIO)>>,
                   <<"Kids", Arr(<<Ref(29)>>)>>>>))
  @@ (29 :> Dict(<<<<"FT", Name("Tx")>>, <<"AP", Appearance(<<"A">>)>>>>))
  \* two grouping nodes that list each other among their kids
  @@ (31 :> Dict(<<<<"Kids", Arr(<<Ref(32)>>)>>>>))
  @@ (32 :> Dict(<<<<"Kids", Arr(<<Ref(31)>>)>>>>))

\* The identifier of no object of any document.
Dangling == CHOOSE i \in 90..99 : i \notin DOMAIN Pool

GoodTrailer == <<<<"Size", Integer(30)>>, <<"Root", Ref(1)>>>>
Trailers ==
  { GoodTrailer,
    <<<<"Size", Integer(30)>>>>,
    <<<<"Root", Dict(<<>>)>>>>,
    <<<<"Root", Ref(Dangling)>>>>,
    <<<<"Root", Ref(3)>>>> }

GoodCatalog == Dict(<<<<"Type", Name("Catalog")>>, <<"AcroForm", Ref(2)>>>>)
Catalogs ==
  { GoodCatalog,
    Dict(<<<<"Type", Name("Catalog")>>>>),
    Dict(<<<<"AcroForm", Dict(<<<<"Fields", Arr(<<>>)>>>>)>>>>),
    Dict(<<<<"AcroForm", Ref(Dangling)>>>>),
    Dict(<<<<"AcroForm", Ref(3)>>>>) }

AcroForm(fields) == Dict(<<<<"Fields", Arr(fields)>>>>)
BadAcroForms == { Dict(<<>>), Dict(<<<<"Fields", Ref(4)>>>>) }

\* The fields of the documents the setters run on: two of each settable
\* type, differing in flags and in the value they start with.
FormElems == { Ref(i) : i \in {10, 11, 12, 13, 14, 16, 17, 18, 19} }

\* What "Fields" holds in the documents of discovery alone: references to
\* fields with and without kids, to grouping nodes, to a non-dictionary and
\* to no object, and a non-reference.
FieldElems ==
  { Ref(i) : i \in {10, 14, 15, 23, 24, 25, 26, 27, 3, Dangling} }
    \cup { Integer(0) }

RECURSIVE SeqsUpTo(_, _)
SeqsUpTo(S, n) ==
  IF n = 0 THEN { <<>> }
  ELSE LET shorter == SeqsUpTo(S, n - 1)
       IN shorter \cup { Append(q, x) : q \in shorter, x \in S }

\* The "Fields" arrays of the documents the setters run on: none, each field
\* alone, a radio group beside a text field, one field listed twice, and the
\* field whose "FT" is not a name.
Layouts ==
  { <<e>> : e \in FormElems }
    \cup { <<>>, <<Ref(14), Ref(10)>>, <<Ref(17), Ref(17)>>, <<Ref(27)>> }
LoadLayouts == SeqsUpTo(FieldElems, MaxTopLevel)

\* The "Fields" arrays of the documents whose "Kids" arrays form a cycle or
\* reach one object along several paths, beside documents that do neither.
CycleLayouts ==
  { <<>>, <<Ref(10)>>, <<Ref(24)>>, <<Ref(24), Ref(25)>>, <<Ref(25), Ref(12)>>,
    <<Ref(14), Ref(15)>>, <<Ref(31)>>, <<Ref(32), Ref(10)>>,
    <<Ref(24), Ref(31)>>, <<Ref(31), Ref(32)>>, <<Ref(28), Ref(31)>> }

\* The "Fields" arrays of the documents with more than one field: fields of
\* different and of the same type side by side, one field listed twice, and
\* a field that is a kid of another field.
FrameLayouts ==
  { <<>>, <<Ref(14), Ref(10)>>, <<Ref(17), Ref(17)>>, <<Ref(12), Ref(13)>>,
    <<Ref(16), Ref(18)>>, <<Ref(28)>> }

Document(cat, acro) == (1 :> cat) @@ (2 :> acro) @@ Pool

\* No state has been read yet.
NoState == [k |-> "none"]

NoOp == [op |-> "none", n |-> 0, s |-> "", b |-> FALSE, l |-> <<>>,
         res |-> "none"]

\* The state before load_doc runs on a document whose "Fields" array is one
\* of layouts, or whose header deviates in one place from the well-formed one.
InitOn(layouts) ==
  /\ \E tr \in Trailers, cat \in Catalogs,
        acro \in BadAcroForms \cup { AcroForm(fl) : fl \in layouts } :
       /\ tr # GoodTrailer => cat = GoodCatalog /\ acro = AcroForm(<<>>)
       /\ cat # GoodCatalog => acro = AcroForm(<<>>)
       /\ trailer = tr
       /\ objects = Document(cat, acro)
  /\ pc = "start"
  /\ queue = <<>>
  /\ form_ids = <<>>
  /\ load_result = "none"
  /\ steps = 0
  /\ last_op = NoOp
  /\ prev_objects = objects
  /\ nops = 0
  /\ type_in = <<>>
  /\ type_out = "none"
  /\ state_out = NoState

Init == InitOn(Layouts)
InitLoad == InitOn(LoadLayouts)
InitFrame == InitOn(FrameLayouts)
InitCycle == InitOn(CycleLayouts)

(***************************************************************************)
(* Discovery: Form::load_doc.                                              *)
(***************************************************************************)
\* PdfObjectDeref::deref: the error, or "Ok" when objs[o.v] is the target.
deref(objs, o) ==
  IF ~IsRef(o) THEN "NotAReference"
  ELSE IF o.v \notin DOMAIN objs THEN "NoSuchReference"
  ELSE "Ok"

\* Lines 146-163: the error met on the way to the "Fields" array, else "Ok".
\* The lookup of "Root" has no ok_or: an absent "Root" is no reference.
FieldsListResult(tr, objs) ==
  IF ~Has(tr, "Root") THEN "NotAReference"
  ELSE IF deref(objs, Get(tr, "Root")) # "Ok" THEN deref(objs, Get(tr, "Root"))
  ELSE LET catalog == objs[Get(tr, "Root").v] IN
  IF ~IsDict(catalog) THEN "UnexpectedType"
  ELSE IF ~Has(catalog.v, "AcroForm") THEN "DictionaryKeyNotFound"
  ELSE IF deref(objs, Get(catalog.v, "AcroForm")) # "Ok"
    THEN deref(objs, Get(catalog.v, "AcroForm"))
  ELSE LET acroform == objs[Get(catalog.v, "AcroForm").v] IN
  IF ~IsDict(acroform) THEN "UnexpectedType"
  ELSE IF ~Has(acroform.v, "Fields") THEN "DictionaryKeyNotFound"
  ELSE IF ~IsArray(Get(acroform.v, "Fields")) THEN "UnexpectedType"
  ELSE "Ok"

\* The "Fields" array when FieldsListResult is "Ok".
FieldsList(tr, objs) ==
  Get(objs[Get(objs[Get(tr, "Root").v].v, "AcroForm").v].v, "Fields").v

\* The kids the loop enqueues for a dereferenced object.
KidsOf(obj) ==
  IF IsDict(obj) /\ Has(obj.v, "Kids") /\ IsArray(Get(obj.v, "Kids"))
  THEN Get(obj.v, "Kids").v ELSE <<>>

EnqueueFront(q, kids) == kids \o q
\* queue.append(&mut VecDeque::from(kids.clone()))
Enqueue(q, kids) == q \o kids

\* Lines 141-164: up to the seeding of the queue.
LoadStart ==
  /\ pc = "start"
  /\ IF FieldsListResult(trailer, objects) = "Ok"
     THEN /\ queue' = Enqueue(<<>>, FieldsList(trailer, objects))
          /\ pc' = "loop"
          /\ load_result' = load_result
     ELSE /\ queue' = <<>>
          /\ pc' = "failed"
          /\ load_result' = FieldsListResult(trailer, objects)
  /\ UNCHANGED <<trailer, objects, form_ids, steps, last_op, prev_objects,
                 nops, type_in, type_out, state_out>>

\* Lines 167-179: one iteration of the loop over the queue.
LoadStep ==
  /\ pc = "loop"
  /\ queue # <<>>
  /\ steps' = IF steps < MaxSteps THEN steps + 1 ELSE steps
  /\ LET objref == Head(queue) IN
     IF deref(objects, objref) # "Ok"
     THEN /\ pc' = "failed"
          /\ load_result' = deref(objects, objref)
          /\ queue' = <<>>
          /\ form_ids' = <<>>
     ELSE LET obj == objects[objref.v] IN
          /\ pc' = pc
          /\ load_result' = load_result
          /\ form_ids' = IF IsDict(obj) /\ Has(obj.v, "FT")
                         THEN Append(form_ids, objref.v) ELSE form_ids
          /\ queue' = Enqueue(Tail(queue), KidsOf(obj))
  /\ UNCHANGED <<trailer, objects, last_op, prev_objects, nops, type_in,
                 type_out, state_out>>

\* Line 181: the queue is empty, Ok(Form { doc, form_ids }).
LoadReturn ==
  /\ pc = "loop"
  /\ queue = <<>>
  /\ pc' = "ready"
  /\ load_result' = "Ok"
  /\ UNCHANGED <<trailer, objects, queue, form_ids, steps, last_op,
                 prev_objects, nops, type_in, type_out, state_out>>

(***************************************************************************)
(* The setters, called on a loaded Form with an index n into form_ids      *)
(* (1-based here) taken within field_count, as the callers must.           *)
(***************************************************************************)
Labels == {"A", "1", "Z"}
ListLabels == {"A", "B", "Z"}

\* A call returned out: the document is out.objs; a panic ends the program.
Returned(op, out) ==
  /\ pc = "ready"
  /\ nops < MaxOps
  /\ nops' = nops + 1
  /\ prev_objects' = objects
  /\ objects' = out.objs
  /\ last_op' = [op EXCEPT !.res = out.res]
  /\ pc' = IF out.res = "Panic" THEN "panicked" ELSE pc
  /\ UNCHANGED <<trailer, queue, form_ids, load_result, steps, type_in,
                 type_out, state_out>>

SetText ==
  \E n \in 1..Len(form_ids), s \in Labels :
    Returned([NoOp EXCEPT !.op = "set_text", !.n = n, !.s = s],
             set_text(objects, form_ids[n], s))

SetCheckBox ==
  \E n \in 1..Len(form_ids), is_checked \in BOOLEAN :
    Returned([NoOp EXCEPT !.op = "set_check_box", !.n = n, !.b = is_checked],
             set_check_box(objects, form_ids[n], is_checked))

SetRadio ==
  \E n \in 1..Len(form_ids), choice \in Labels :
    Returned([NoOp EXCEPT !.op = "set_radio", !.n = n, !.s = choice],
             set_radio(objects, form_ids[n], choice))

SetListBox ==
  \E n \in 1..Len(form_ids), choices \in SeqsUpTo(ListLabels, MaxChoices) :
    Returned([NoOp EXCEPT !.op = "set_list_box", !.n = n, !.l = choices],
             set_list_box(objects, form_ids[n], choices))

SetComboBox ==
  \E n \in 1..Len(form_ids), choice \in Labels :
    Returned([NoOp EXCEPT !.op = "set_combo_box", !.n = n, !.s = choice],
             set_combo_box(objects, form_ids[n], choice))

Next ==
  \/ LoadStart
  \/ LoadStep
  \/ LoadReturn
  \/ SetText
  \/ SetCheckBox
  \/ SetRadio
  \/ SetListBox
  \/ SetComboBox

Spec == Init /\ [][Next]_vars

\* The same operations on the documents with more than one field.
SpecFrame == InitFrame /\ [][Next]_vars

\* Discovery alone, on the wider family of documents.
NextLoad ==
  \/ LoadStart
  \/ LoadStep
  \/ LoadReturn

SpecLoad == InitLoad /\ [][NextLoad]_vars

\* Discovery as load_doc runs it: the loop goes on while it can, on the
\* documents with cycles and shared kids.
SpecCycle == InitCycle /\ [][NextLoad]_vars /\ WF_vars(NextLoad)

(***************************************************************************)
(* Classification alone: get_type applied to a field dictionary drawn from *)
(* the subtype tags and the flag words below.                              *)
(***************************************************************************)
RECURSIVE SumOf(_)
SumOf(S) == IF S = {} THEN 0
            ELSE LET b == CHOOSE x \in S : TRUE IN b + SumOf(S \ {b})

FlagWords ==
  { SumOf(S) : S \in SUBSET {NO_TOGGLE_TO_OFF, RADIO, PUSHBUTTON, EDIT,
                             MULTISELECT} } \cup { -1, 1 }
Subtypes == { Name("Btn"), Name("Ch"), Name("Tx"), Name("Sig") }

TypeInputs ==
  { <<<<"FT", ft>>>> : ft \in Subtypes }
    \cup { <<<<"FT", ft>>, <<"Ff", Integer(w)>>>> :
             ft \in Subtypes, w \in FlagWords }

\* The object the classified field is stored under.
Classified == CHOOSE i \in 30..39 : i \notin DOMAIN Pool

InitType ==
  /\ type_in \in TypeInputs
  /\ trailer = GoodTrailer
  /\ objects = (Classified :> Dict(type_in))
                 @@ Document(GoodCatalog, AcroForm(<<Ref(Classified)>>))
  /\ pc = "classify"
  /\ queue = <<>>
  /\ form_ids = <<Classified>>
  /\ load_result = "none"
  /\ steps = 0
  /\ last_op = NoOp
  /\ prev_objects = objects
  /\ nops = 0
  /\ type_out = "none"
  /\ state_out = NoState

GetType ==
  /\ pc = "classify"
  /\ type_out = "none"
  /\ type_out' = get_type(FieldOf(objects, form_ids[1]))
  /\ UNCHANGED <<trailer, objects, pc, queue, form_ids, load_result, steps,
                 last_op, prev_objects, nops, type_in, state_out>>

NextType == GetType

SpecType == InitType /\ [][NextType]_vars

(***************************************************************************)
(* Option lists alone: get_state applied to a choice field whose "Opt"     *)
(* array is drawn from the element shapes below.                           *)
(***************************************************************************)
MaxOpt == 2         \* elements of one "Opt" array

OptElems ==
  { Str("A"), Str("B"), Str(""), HexStr("A"), Integer(5), Name("A"),
    Arr(<<Str("x"), Str("B")>>), Arr(<<Str("x"), Str("A"), Str("B")>>),
    Arr(<<Str("x"), Integer(1)>>), Arr(<<Str("x"), Str("")>>),
    Arr(<<Str("x")>>), Arr(<<>>) }

ChoiceInputs ==
  { <<<<"FT", Name("Ch")>>, <<"Ff", Integer(w)>>, <<"Opt", Arr(opt)>>>> :
      w \in {0, COBMO}, opt \in SeqsUpTo(OptElems, MaxOpt) }

InitOptions ==
  /\ type_in \in ChoiceInputs
  /\ trailer = GoodTrailer
  /\ objects = (Classified :> Dict(type_in))
                 @@ Document(GoodCatalog, AcroForm(<<Ref(Classified)>>))
  /\ pc = "read"
  /\ queue = <<>>
  /\ form_ids = <<Classified>>
  /\ load_result = "none"
  /\ steps = 0
  /\ last_op = NoOp
  /\ prev_objects = objects
  /\ nops = 0
  /\ type_out = "none"
  /\ state_out = NoState

GetState ==
  /\ pc = "read"
  /\ state_out = NoState
  /\ state_out' = get_state(objects, form_ids[1])
  /\ UNCHANGED <<trailer, objects, pc, queue, form_ids, load_result, steps,
                 last_op, prev_objects, nops, type_in, type_out>>

NextOptions == GetState

SpecOptions == InitOptions /\ [][NextOptions]_vars

(***************************************************************************)
(* Properties.                                                             *)
(***************************************************************************)
\* The field the last setter call addressed, and its state before and after.
Target == form_ids[last_op.n]
Before == get_state(prev_objects, Target)
After == get_state(objects, Target)
Called(op) == last_op.op = op
Range(s) == { s[i] : i \in DOMAIN s }
InSeq(s, x) == x \in Range(s)

\* C1 as stated: on a ListBox without multiselect, set_list_box with two or
\* more labels returns TooManySelected whether or not the labels are options.
C1_TooManyWhateverTheLabels ==
  (Called("set_list_box") /\ Before.k = "ListBox" /\ ~Before.multiselect
     /\ Len(last_op.l) >= 2)
    => last_op.res = "TooManySelected"

\* C1 amended: on a ListBox without multiselect, set_list_box with two or more
\* labels returns TooManySelected when every label is an option, and
\* InvalidSelection when some label is not.
C1_TooManyOnlyForValidLabels ==
  (Called("set_list_box") /\ Before.k = "ListBox" /\ ~Before.multiselect
     /\ Len(last_op.l) >= 2)
    => last_op.res =
         IF \A i \in DOMAIN last_op.l : InSeq(Before.options, last_op.l[i])
         THEN "TooManySelected" ELSE "InvalidSelection"

C1_Witness ==
  /\ Called("set_list_box") /\ Before.k = "ListBox" /\ ~Before.multiselect
  /\ Len(last_op.l) >= 2
  /\ last_op.res = "TooManySelected"

ValueErrors == {"TypeMismatch", "InvalidSelection", "TooManySelected"}

\* C2: a setter call that returns a ValueError leaves the document, the field
\* list and so every field's type and state as they were before the call.
C2_FailedSetterChangesNothing ==
  [][(nops' = nops + 1 /\ last_op'.res \in ValueErrors)
       => /\ objects' = objects
          /\ trailer' = trailer
          /\ form_ids' = form_ids
          /\ \A n \in 1..Len(form_ids) :
               get_state(objects', form_ids'[n]) = get_state(objects, form_ids[n])
    ]_vars

C2_Witness ==
  /\ Called("set_radio") /\ last_op.res = "InvalidSelection"
  /\ Before.k = "Radio"

\* The "Fields" array of the document, and the breadth-first order of the
\* field tree below it, level by level: a level, then the kids of its nodes.
TopFields == FieldsList(trailer, objects)
KidsArray(ref) ==
  LET node == objects[ref.v] IN
  IF node.t = "Dictionary" /\ (\E e \in Range(node.v) : e[1] = "Kids")
  THEN LET kids == (CHOOSE e \in Range(node.v) : e[1] = "Kids")[2]
       IN IF kids.t = "Array" THEN kids.v ELSE <<>>
  ELSE <<>>
KidsLevel(level) == [i \in 1..Len(level) |-> KidsArray(level[i])]
RECURSIVE Flatten(_)
Flatten(ss) == IF ss = <<>> THEN <<>> ELSE Head(ss) \o Flatten(Tail(ss))
RECURSIVE BreadthFirst(_)
BreadthFirst(level) ==
  IF level = <<>> THEN <<>>
  ELSE level \o BreadthFirst(Flatten(KidsLevel(level)))
CarriesFT(ref) == IsDict(objects[ref.v]) /\ Has(objects[ref.v].v, "FT")
IdsOf(refs) == [i \in 1..Len(refs) |-> refs[i].v]

\* C3: a Form that load_doc returns lists exactly the objects with "FT" in
\* the breadth-first order of the tree under "Fields", kids of fields with
\* and without "FT" included; every listed object is a dictionary with "FT";
\* N top-level fields without kids give field_count N in the array's order.
C3_DiscoveryIsBreadthFirst ==
  pc = "ready" =>
    /\ form_ids = IdsOf(SelectSeq(BreadthFirst(TopFields), CarriesFT))
    /\ \A i \in 1..Len(form_ids) :
         /\ form_ids[i] \in DOMAIN objects
         /\ IsDict(objects[form_ids[i]])
         /\ Has(objects[form_ids[i]].v, "FT")
    /\ (\A i \in 1..Len(TopFields) :
          CarriesFT(TopFields[i]) /\ KidsArray(TopFields[i]) = <<>>)
         => /\ Len(form_ids) = Len(TopFields)
            /\ form_ids = IdsOf(TopFields)

\* A grouping node before a plain field: the plain field is listed before the
\* fields nested under the group.
C3_Witness ==
  /\ pc = "ready"
  /\ TopFields = <<Ref(24), Ref(14), Ref(10)>>
  /\ form_ids = <<14, 10, 11, 12, 13>>

\* The objects the traversal dereferences when it runs to the end.
Reached == BreadthFirst(TopFields)

\* C4 as stated: a missing "Root", "AcroForm" or "Fields" fails with
\* DictionaryKeyNotFound, a non-reference with NotAReference, a dangling
\* reference with NoSuchReference, a non-dictionary or non-array where one is
\* expected with UnexpectedType; a failed load returns no field list, and a
\* Form is returned only when the traversal met none of these.
C4_LoadFailsOnEveryFault ==
  pc \in {"ready", "failed"} =>
    /\ load_result # "Ok" => pc = "failed" /\ form_ids = <<>>
    /\ ~Has(trailer, "Root") => load_result = "DictionaryKeyNotFound"
    /\ (Has(trailer, "Root") /\ ~IsRef(Get(trailer, "Root")))
         => load_result = "NotAReference"
    /\ (trailer = GoodTrailer /\ ~Has(objects[1].v, "AcroForm"))
         => load_result = "DictionaryKeyNotFound"
    /\ (trailer = GoodTrailer /\ objects[1] = GoodCatalog
          /\ ~Has(objects[2].v, "Fields"))
         => load_result = "DictionaryKeyNotFound"
    /\ load_result = "Ok" =>
         \A i \in 1..Len(Reached) :
           /\ IsRef(Reached[i])
           /\ Reached[i].v \in DOMAIN objects
           /\ IsDict(objects[Reached[i].v])
           /\ Has(objects[Reached[i].v].v, "Kids")
                => IsArray(Get(objects[Reached[i].v].v, "Kids"))

\* C5: on a Radio field, set_radio with a label of the derived options
\* succeeds, after which state_of gives selected = label and the options of
\* before; with any other label it returns InvalidSelection.
C5_SetRadio ==
  (Called("set_radio") /\ Before.k = "Radio") =>
    IF InSeq(Before.options, last_op.s)
    THEN /\ last_op.res = "Ok"
         /\ After.k = "Radio"
         /\ After.selected = last_op.s
         /\ After.options = Before.options
    ELSE last_op.res = "InvalidSelection"

\* A radio group set to the label made from the position of a kid.
C5_Witness ==
  /\ Called("set_radio") /\ Before.k = "Radio"
  /\ last_op.s = "1" /\ last_op.res = "Ok"
  /\ After.selected = "1"

\* The dictionary of the addressed field after the call.
TargetDict == objects[Target].v

\* C6: on a ComboBox field, set_combo_box succeeds exactly when the label is
\* an option or the field is editable; then "V" is the label as one literal
\* string and state_of gives selected = <<label>>; otherwise the call returns
\* InvalidSelection and the state of the field is as before.
C6_SetComboBox ==
  (Called("set_combo_box") /\ Before.k = "ComboBox") =>
    /\ last_op.res = "Ok"
         <=> (InSeq(Before.options, last_op.s) \/ Before.editable)
    /\ last_op.res = "Ok" =>
         /\ Has(TargetDict, "V")
         /\ Get(TargetDict, "V") = [t |-> "String", v |-> last_op.s]
         /\ After.k = "ComboBox"
         /\ After.selected = <<last_op.s>>
    /\ last_op.res # "Ok" =>
         /\ last_op.res = "InvalidSelection"
         /\ After = Before

\* Free text accepted by an editable combo box.
C6_Witness ==
  /\ Called("set_combo_box") /\ Before.k = "ComboBox"
  /\ last_op.res = "Ok"
  /\ ~InSeq(Before.options, last_op.s)
  /\ Before.editable

\* C7: on a ListBox field, set_list_box with labels that are all options, at
\* most one of them unless multiselect is set, succeeds; "V" is null or absent
\* for no label, one literal string for one, an array of literal strings for
\* several; state_of then gives selected = the labels in the order given, and
\* the options and multiselect of before.
C7_SetListBox ==
  (Called("set_list_box") /\ Before.k = "ListBox"
     /\ (\A i \in DOMAIN last_op.l : InSeq(Before.options, last_op.l[i]))
     /\ (Len(last_op.l) <= 1 \/ Before.multiselect)) =>
    /\ last_op.res = "Ok"
    /\ Len(last_op.l) = 0 =>
         ~Has(TargetDict, "V") \/ Get(TargetDict, "V").t = "Null"
    /\ Len(last_op.l) = 1 =>
         /\ Has(TargetDict, "V")
         /\ Get(TargetDict, "V") = [t |-> "String", v |-> last_op.l[1]]
    /\ Len(last_op.l) > 1 =>
         /\ Has(TargetDict, "V")
         /\ Get(TargetDict, "V").t = "Array"
         /\ Get(TargetDict, "V").v =
              [i \in DOMAIN last_op.l |-> [t |-> "String", v |-> last_op.l[i]]]
    /\ After.k = "ListBox"
    /\ After.selected = last_op.l
    /\ After.options = Before.options
    /\ After.multiselect = Before.multiselect

\* Two labels selected against the order of the options.
C7_Witness ==
  /\ Called("set_list_box") /\ Before.k = "ListBox"
  /\ last_op.l = <<"B", "A">> /\ last_op.res = "Ok"
  /\ After.selected = <<"B", "A">>

\* The state of the field object oid after the check box calls bs, in order.
RECURSIVE AfterCheckBoxCalls(_, _, _)
AfterCheckBoxCalls(objs, oid, bs) ==
  IF bs = <<>> THEN objs
  ELSE AfterCheckBoxCalls(set_check_box(objs, oid, Head(bs)).objs, oid, Tail(bs))

\* C8: on a CheckBox field in any prior state, set_check_box(b) writes the
\* name "Yes" or "Off" to both "V" and "AS" and state_of gives is_checked = b;
\* false, true, false ends in the observable state of a single false, and a
\* repeated call with the same value changes nothing.
C8_SetCheckBox ==
  (Called("set_check_box") /\ Before.k = "CheckBox") =>
    /\ last_op.res = "Ok"
    /\ Has(TargetDict, "V") /\ Has(TargetDict, "AS")
    /\ Get(TargetDict, "V") =
         [t |-> "Name", v |-> IF last_op.b THEN "Yes" ELSE "Off"]
    /\ Get(TargetDict, "AS") = Get(TargetDict, "V")
    /\ After = [k |-> "CheckBox", is_checked |-> last_op.b]
    /\ set_check_box(objects, Target, last_op.b).objs = objects
    /\ get_state(AfterCheckBoxCalls(prev_objects, Target,
                                    <<FALSE, TRUE, FALSE>>), Target)
         = get_state(AfterCheckBoxCalls(prev_objects, Target, <<FALSE>>),
                     Target)

\* A checked box unchecked.
C8_Witness ==
  /\ Called("set_check_box") /\ Before.k = "CheckBox"
  /\ Before.is_checked /\ ~last_op.b
  /\ last_op.res = "Ok" /\ ~After.is_checked

\* C9: a Text field without "V" has text = ""; after set_text(s), state_of
\* gives text = s and the field has no "AP", whether it had one or not.
C9_SetText ==
  /\ pc = "ready" =>
       \A n \in 1..Len(form_ids) :
         (get_type(objects[form_ids[n]].v) = "Text"
            /\ ~Has(objects[form_ids[n]].v, "V"))
           => get_state(objects, form_ids[n]) = [k |-> "Text", text |-> ""]
  /\ (Called("set_text") /\ Before.k = "Text") =>
       /\ last_op.res = "Ok"
       /\ After = [k |-> "Text", text |-> last_op.s]
       /\ ~Has(TargetDict, "AP")

\* A text field with an appearance and no value, filled in.
C9_Witness ==
  /\ Called("set_text") /\ Before.k = "Text"
  /\ Has(prev_objects[Target].v, "AP") /\ ~Has(prev_objects[Target].v, "V")
  /\ Before.text = ""
  /\ last_op.res = "Ok" /\ After.text = "A"

\* Bit b of the flag word of the classified field: set when the word modulo
\* 2b is at least b; no "Ff" is the word 0.
FlagWord == IF Has(type_in, "Ff") THEN Get(type_in, "Ff").v ELSE 0
FlagSet(b) == FlagWord % (2 * b) >= b

\* C10: type_of depends on "FT" and "Ff" alone and leaves the field as it
\* was: "Btn" is Radio with bit 0x10000 or 0x8000, else Button with bit
\* 0x20000, else CheckBox; "Ch" is ComboBox with bit 0x20000, else ListBox;
\* any other tag is Text.
C10_Classification ==
  type_out # "none" =>
    /\ objects[Classified] = [t |-> "Dictionary", v |-> type_in]
    /\ type_out =
         CASE Get(type_in, "FT").v = "Btn" ->
                IF FlagSet(65536) \/ FlagSet(32768) THEN "Radio"
                ELSE IF FlagSet(131072) THEN "Button"
                ELSE "CheckBox"
           [] Get(type_in, "FT").v = "Ch" ->
                IF FlagSet(131072) THEN "ComboBox" ELSE "ListBox"
           [] OTHER -> "Text"

\* Radio and pushbutton bits together.
C10_Witness ==
  /\ type_out = "Radio"
  /\ FlagSet(65536) /\ FlagSet(131072) /\ ~FlagSet(32768)

\* C11 The field's "Opt" array, and the labels the claim lets survive: a
\* literal string itself, an array of two or more elements its second element
\* when that is a literal string, nothing for every other element; empty
\* labels are left out and the order is kept.
OptArray == Get(type_in, "Opt").v

Survives(x) ==
  \/ IsLiteral(x) /\ x.v # ""
  \/ IsArray(x) /\ Len(x.v) >= 2 /\ IsLiteral(x.v[2]) /\ x.v[2].v # ""

SurvivingLabel(x) == IF IsLiteral(x) THEN x.v ELSE x.v[2].v

Surviving(opt) == MapSeq(SurvivingLabel, SelectSeq(opt, Survives))

\* C11 For every ListBox or ComboBox field, get_state returns a state for
\* every shape of "Opt" element (it never fails), and the option list of that
\* state is the surviving labels in their order, none of them empty.
C11_OptionsTolerateEveryShape ==
  state_out # NoState =>
    /\ state_out.k \in {"ListBox", "ComboBox"}
    /\ state_out.options = Surviving(OptArray)
    /\ \A i \in 1..Len(state_out.options) : state_out.options[i] # ""

\* C11 The same, for the "Opt" arrays none of whose array elements has fewer
\* than two elements: the shapes the code reads without panicking.
LongEnough(x) == IsArray(x) => Len(x.v) >= 2

C11_OptionsOfLongEnoughArrays ==
  (state_out # NoState /\ \A i \in 1..Len(OptArray) : LongEnough(OptArray[i]))
    =>
    /\ state_out.k \in {"ListBox", "ComboBox"}
    /\ state_out.options = Surviving(OptArray)
    /\ \A i \in 1..Len(state_out.options) : state_out.options[i] # ""

\* C11 get_state was applied to an "Opt" array holding an array element with
\* fewer than two elements.
C11_ShortArrayRead ==
  /\ state_out # NoState
  /\ \E i \in 1..Len(OptArray) : ~LongEnough(OptArray[i])

\* C12 A setter call has just returned Ok in this step.
SetterSucceeds == nops' = nops + 1 /\ last_op'.res = "Ok"

\* C12 Field j reads the same type and the same state before and after the
\* step.
SameField(j) ==
  /\ get_type(FieldOf(objects', form_ids[j]))
       = get_type(FieldOf(objects, form_ids[j]))
  /\ get_state(objects', form_ids[j]) = get_state(objects, form_ids[j])

\* C12 A successful setter call on index i leaves the field list as it was
\* and, for every other index j, the type and the state of field j.
C12_SetterChangesOnlyItsIndex ==
  [][SetterSucceeds =>
       /\ form_ids' = form_ids
       /\ \A j \in 1..Len(form_ids) : j # last_op'.n => SameField(j)]_vars

\* C12 Index j stands for another object than index i, and not for a radio
\* group that has the object of index i among its "Kids".
Apart(i, j) ==
  /\ form_ids[j] # form_ids[i]
  /\ ~(/\ get_type(FieldOf(objects, form_ids[j])) = "Radio"
       /\ Contains(KidsOf(objects[form_ids[j]]), Ref(form_ids[i])))

\* C12 A successful setter call on index i leaves the field list as it was
\* and, for every index j that stands for another object and is not a radio
\* group with the object of i among its kids, the type and the state of
\* field j.
C12_SetterChangesOnlyItsObject ==
  [][SetterSucceeds =>
       /\ form_ids' = form_ids
       /\ \A j \in 1..Len(form_ids) : Apart(last_op'.n, j) => SameField(j)]_vars

\* C12 A setter succeeded and changed its field while another object is in
\* the field list.
C12_Witness ==
  /\ last_op.res = "Ok"
  /\ get_state(objects, Target) # get_state(prev_objects, Target)
  /\ \E j \in 1..Len(form_ids) : form_ids[j] # Target

\* C13 load_doc has returned, a Form or a LoadError.
Returned_load == pc \in {"ready", "failed"}

\* C13 Discovery terminates on every document: the loop eventually empties
\* its queue and load_doc returns a Form or a LoadError, also when "Kids"
\* arrays form a cycle or one object is reachable along several paths.
C13_DiscoveryTerminates == <>Returned_load

\* C13 The objects the references of refs stand for, and the objects that
\* the loop reaches from a set of objects through "Kids".
Targets(refs) ==
  { refs[i].v : i \in { k \in 1..Len(refs) :
                          IsRef(refs[k]) /\ refs[k].v \in DOMAIN objects } }

RECURSIVE Descendants(_, _)
Descendants(S, n) ==
  IF n = 0 THEN S
  ELSE Descendants(S \cup UNION { Targets(KidsOf(objects[o])) : o \in S },
                   n - 1)

KidsOfKids(o) ==
  Descendants(Targets(KidsOf(objects[o])), Cardinality(DOMAIN objects))

\* C13 No object that discovery reaches is among its own descendants.
Acyclic ==
  FieldsListResult(trailer, objects) = "Ok" =>
    \A o \in Descendants(Targets(FieldsList(trailer, objects)),
                         Cardinality(DOMAIN objects)) : o \notin KidsOfKids(o)

\* C13 Discovery terminates on every document without a cycle, also when
\* one object is reachable along several paths.
C13_AcyclicDiscoveryTerminates == Acyclic ~> Returned_load

\* C13 The loop is running on a document with a cycle.
C13_LoopOnCycle == pc = "loop" /\ ~Acyclic /\ steps = MaxSteps

====
